---- MODULE Spec2Model ----
(***************************************************************************)
(* Model of the MCC voice-loop controller (gui.py, class MainWindow): the  *)
(* bookkeeping that maps loops onto the pool of three relay bots, and the  *)
(* commands it posts to the bots; and of the relay bot (bot_server.py,     *)
(* class LoopBot): its playback thread, its delayed-audio worker and the   *)
(* one-shot timers of the delayed commands.                                *)
(***************************************************************************)
EXTENDS Integers, Sequences, FiniteSets, TLC

\* ---------------------------------------------------------------- bounds
\* time.time() is modelled as an integer clock that runs from 1 to MaxTime.
MaxTime == 2
\* Samples received from the network are the two ends of the 16-bit range
\* and every value from -MaxSample to MaxSample.
MaxSample == 100
\* /set_volume is asked for every hundredth from -MaxVolumeOver/100 to
\* 1 + MaxVolumeOver/100.
MaxVolumeOver == 2
\* In the model of the delayed-audio relay the clock runs to MaxRelayTime and
\* the microphone delivers at most MaxFrames chunks.
MaxRelayTime == 5
MaxFrames == 2
\* In the model of the controller together with its bots the clock runs to
\* MaxSystemTime and at most MaxTimers one-shot timers are pending.
MaxSystemTime == 4
MaxTimers == 1

\* ------------------------------------------------------- static catalogue
None == "None"

\* loop states as the code numbers them
OFF == 0
LISTEN == 1
TALK == 2
LoopStateValues == {OFF, LISTEN, TALK}

\* LOOPS, the list loaded from LOOPS/loops_<ROLE>.txt: two talk-capable
\* loops, two listen-only loops and one loop with neither capability, so
\* that more loops can be clicked on than the pool has bots.
LOOPS ==
  << [name |-> "A", can_listen |-> TRUE,  can_talk |-> TRUE],
     [name |-> "B", can_listen |-> TRUE,  can_talk |-> TRUE],
     [name |-> "C", can_listen |-> TRUE,  can_talk |-> FALSE],
     [name |-> "D", can_listen |-> FALSE, can_talk |-> FALSE],
     [name |-> "E", can_listen |-> TRUE,  can_talk |-> FALSE] >>

LoopNames == {LOOPS[i].name : i \in 1..Len(LOOPS)}

\* self.loop_configs = {loop["name"]: loop for loop in LOOPS}
loop_configs ==
  [l \in LoopNames |-> LOOPS[CHOOSE i \in 1..Len(LOOPS) : LOOPS[i].name = l]]

\* BOTS, in the order of the bot_pool dictionary
BOTS == << "BOT1", "BOT2", "BOT3" >>
BotNames == {BOTS[i] : i \in 1..Len(BOTS)}

VARIABLES
  loop_states,       \* loop name -> [state, bot]         (self.loop_states)
  bot_pool,          \* bot name -> [assigned, last_used] (self.bot_pool)
  delay_enabled,     \* self.delay_enabled
  now,               \* the value time.time() returns
  pc,                \* the GUI thread: "idle" in the event loop, "done" when a
                     \* slot has just returned, "crashed" when one has raised
  sent,              \* commands delivered to bots by the slot that just ran
  last_op,           \* the slot that just ran and its arguments
  prev_loop_states,  \* loop_states as that slot found it
  prev_bot_pool,     \* bot_pool as that slot found it
  scenario1,         \* progress through the click sequence A, A, B, B
  loop_bot,          \* the LoopBot of one bot_server process: loop,
                     \* streaming, audio_delay_enabled and playback_volume
                     \* (in hundredths)
  outstream,         \* the chunk the playback thread has just written: the
                     \* sample it took, the volume it read, the sample written
  audio_delay_queue, \* LoopBot.audio_delay_queue: (tstamp, pcm) in FIFO order
  worker,            \* _delay_audio_worker: where it is and the frame it holds
  mic,               \* _mic_callback: where it is and the frame it holds
  handler,           \* the route being served: "idle", or "drain" inside the
                     \* loop of disable_audio_delay
  consumed,          \* what became of each captured frame, in the order in
                     \* which the frames were played, dropped or drained
  next_frame,        \* number of the next chunk the microphone delivers
  scenario3,         \* progress through Scenario 3
  bot_servers,       \* bot name -> the loop, streaming and
                     \* audio_delay_enabled of that bot_server process
  timers,            \* the one-shot timers that have not expired yet, in
                     \* the order in which they were started
  playback           \* _playback_thread: "running", or "terminated" once an
                     \* exception has left its function

gui_vars == << loop_states, bot_pool, delay_enabled, now, pc, sent, last_op,
               prev_loop_states, prev_bot_pool, scenario1 >>
relay_vars == << audio_delay_queue, worker, mic, handler, consumed,
                 next_frame, scenario3 >>
pool_vars == << bot_servers, timers >>
bot_vars == << loop_bot, outstream, audio_delay_queue, worker, mic, handler,
               consumed, next_frame, scenario3, bot_servers, timers, playback >>
vars == << loop_states, bot_pool, delay_enabled, now, pc, sent, last_op,
           prev_loop_states, prev_bot_pool, scenario1, loop_bot, outstream,
           audio_delay_queue, worker, mic, handler, consumed, next_frame,
           scenario3, bot_servers, timers, playback >>

\* ------------------------------------------------------------ the handlers

\* One command delivered to a bot.
Cmd(bot, cmd, arg) == [bot |-> bot, cmd |-> cmd, arg |-> arg]

\* A running handler: its view of the bookkeeping, the commands delivered so
\* far, the number of posts attempted, the post that will raise (0: none)
\* and whether a post has raised.
Ctx(ls, bp, f) ==
  [ls |-> ls, bp |-> bp, sent |-> << >>, n |-> 0, fail |-> f, raised |-> FALSE]

\* requests.post: it raises when the bot cannot be reached, and after a raise
\* nothing further of the handler executes.
Post(c, bot, cmd, arg) ==
  IF c.raised THEN c
  ELSE IF c.n + 1 = c.fail
       THEN [c EXCEPT !.n = @ + 1, !.raised = TRUE]
       ELSE [c EXCEPT !.n = @ + 1, !.sent = Append(@, Cmd(bot, cmd, arg))]

\* threading.Timer(self.delay_seconds, lambda: post(.../talk)).start()
StartTalkTimer(c, bot) ==
  IF c.raised THEN c
  ELSE [c EXCEPT !.sent = Append(@, Cmd(bot, "talk_timer", None))]

\* idle_bots.sort(key=last_used): a stable insertion into a sorted list
RECURSIVE InsertByLastUsed(_, _, _)
InsertByLastUsed(bp, b, sorted) ==
  IF sorted = << >> THEN << b >>
  ELSE IF bp[b].last_used < bp[Head(sorted)].last_used
       THEN << b >> \o sorted
       ELSE << Head(sorted) >> \o InsertByLastUsed(bp, b, Tail(sorted))

RECURSIVE SortByLastUsed(_, _)
SortByLastUsed(bp, bots) ==
  IF bots = << >> THEN << >>
  ELSE InsertByLastUsed(bp, bots[Len(bots)],
                        SortByLastUsed(bp, SubSeq(bots, 1, Len(bots) - 1)))

\* the bots of the pool with no loop, in pool order
IdleBots(bp) ==
  LET IsIdle(b) == bp[b].assigned = None
  IN SelectSeq(BOTS, IsIdle)

\* _find_idle_bot without the sort: the first idle bot of the pool
FindIdleBot_First(bp) ==
  IF IdleBots(bp) = << >> THEN None ELSE IdleBots(bp)[1]

\* _find_idle_bot that falls back on the first bot when none is idle
FindIdleBot_Steal(bp) ==
  IF IdleBots(bp) = << >> THEN BOTS[1]
  ELSE SortByLastUsed(bp, IdleBots(bp))[1]

\* _find_idle_bot without the test for assigned: the first bot of the pool
FindIdleBot_IgnoreAssigned(bp) == BOTS[1]

\* MainWindow._find_idle_bot
FindIdleBot(bp) ==
  IF IdleBots(bp) = << >> THEN None
  ELSE SortByLastUsed(bp, IdleBots(bp))[1]

\* the scan switching the other TALK loops off and releasing their bots
DemoteOthers_Off(c, de, t, loop_name, i) ==
  LET Demoted(l) == l # loop_name /\ c.ls[l].state = TALK /\ c.ls[l].bot # None
  IN [c EXCEPT
        !.bp = [b \in BotNames |->
                  IF \E l \in LoopNames : Demoted(l) /\ c.ls[l].bot = b
                  THEN [assigned |-> None, last_used |-> t] ELSE c.bp[b]],
        !.ls = [l \in LoopNames |->
                  IF Demoted(l) THEN [state |-> OFF, bot |-> None] ELSE c.ls[l]]]

\* the scan left out: no other loop is demoted
DemoteOthers_Skip(c, de, t, loop_name, i) == c

\* the scan over the other loops when a loop becomes TALK (i-th entry on)
RECURSIVE DemoteOthers(_, _, _, _, _)
DemoteOthers(c, de, t, loop_name, i) ==
  IF i > Len(LOOPS) \/ c.raised THEN c
  ELSE LET other_name == LOOPS[i].name
           ostate == c.ls[other_name].state
           obot == c.ls[other_name].bot
       IN IF other_name = loop_name THEN DemoteOthers(c, de, t, loop_name, i + 1)
          ELSE IF ostate = TALK /\ obot # None
               THEN LET c1 == IF de THEN Post(c, obot, "mute_after_delay", None)
                                    ELSE Post(c, obot, "mute", None)
                        c2 == IF c1.raised THEN c1
                              ELSE [c1 EXCEPT !.ls[other_name] = [state |-> LISTEN, bot |-> obot],
                                              !.bp[obot].last_used = t]
                    IN DemoteOthers(c2, de, t, loop_name, i + 1)
               ELSE DemoteOthers(c, de, t, loop_name, i + 1)

\* the clamp at the head of _update_bot_assignment
ClampState(loop_name, new_state) ==
  IF loop_configs[loop_name].can_listen /\ ~loop_configs[loop_name].can_talk
     /\ new_state > 1
  THEN OFF ELSE new_state

\* the branch new_state == 0 without its test "if old_bot": the lookup
\* self.bot_pool[None] raises
TurnOff_NoGuard(c, de, t, loop_name, old_state, old_bot) ==
  IF old_bot = None THEN [c EXCEPT !.raised = TRUE]
  ELSE LET c1 == Post(Post(c, old_bot, "leave", None), old_bot, "mute", None)
       IN IF c1.raised THEN c1
          ELSE [c1 EXCEPT !.bp[old_bot] = [assigned |-> None, last_used |-> t],
                          !.ls[loop_name] = [state |-> OFF, bot |-> None]]

\* the branch new_state == 0 without the delayed variant: leave and mute
\* whatever the delay flag
TurnOff_NoDelay(c, de, t, loop_name, old_state, old_bot) ==
  IF old_bot # None
  THEN LET c1 == Post(Post(c, old_bot, "leave", None), old_bot, "mute", None)
       IN IF c1.raised THEN c1
          ELSE [c1 EXCEPT !.bp[old_bot] = [assigned |-> None, last_used |-> t],
                          !.ls[loop_name] = [state |-> OFF, bot |-> None]]
  ELSE [c EXCEPT !.ls[loop_name] = [state |-> OFF, bot |-> None]]

\* _update_bot_assignment, the branch new_state == 0
TurnOff(c, de, t, loop_name, old_state, old_bot) ==
  IF old_bot # None
  THEN LET c1 == IF de /\ old_state = TALK
                 THEN Post(c, old_bot, "leave_after_delay", None)
                 ELSE Post(Post(c, old_bot, "leave", None), old_bot, "mute", None)
       IN IF c1.raised THEN c1
          ELSE [c1 EXCEPT !.bp[old_bot] = [assigned |-> None, last_used |-> t],
                          !.ls[loop_name] = [state |-> OFF, bot |-> None]]
  ELSE [c EXCEPT !.ls[loop_name] = [state |-> OFF, bot |-> None]]

\* the branch new_state == 2 with the scan over the other loops run after
\* the join and talk of the target bot
TalkCommands_JoinFirst(c, de, t, loop_name, bot) ==
  LET j == Post(c, bot, "join", loop_name)
      k == IF de THEN StartTalkTimer(j, bot) ELSE Post(j, bot, "talk", None)
  IN DemoteOthers(k, de, t, loop_name, 1)

\* _update_bot_assignment, the branch new_state == 2
TalkCommands(c, de, t, loop_name, bot) ==
  LET j == Post(DemoteOthers(c, de, t, loop_name, 1), bot, "join", loop_name)
  IN IF de THEN StartTalkTimer(j, bot) ELSE Post(j, bot, "talk", None)

\* the branch new_state == 1 leaving the loop before it joins it again
ListenCommands_Rejoin(c, de, loop_name, bot, old_state) ==
  Post(Post(Post(c, bot, "leave", None), bot, "join", loop_name), bot, "mute", None)

\* _update_bot_assignment, the branch new_state == 1
ListenCommands(c, de, loop_name, bot, old_state) ==
  IF old_state = TALK /\ de
  THEN Post(c, bot, "mute_after_delay", None)
  ELSE Post(Post(c, bot, "join", loop_name), bot, "mute", None)

\* the last three assignments of _update_bot_assignment
Record(c, t, loop_name, new_state, bot) ==
  IF c.raised THEN c
  ELSE [c EXCEPT !.bp[bot] = [assigned |-> loop_name, last_used |-> t],
                 !.ls[loop_name] = [state |-> new_state, bot |-> bot]]

\* MainWindow._update_bot_assignment(loop_name, new_state), run on the
\* bookkeeping (ls, bp) with delay flag de at time t; post number f raises.
UpdateBotAssignment(ls, bp, de, t, loop_name, req_state, f) ==
  LET old_state == ls[loop_name].state
      old_bot == ls[loop_name].bot
      new_state == ClampState(loop_name, req_state)
      c0 == Ctx(ls, bp, f)
  IN IF new_state = OFF
     THEN TurnOff(c0, de, t, loop_name, old_state, old_bot)
     ELSE LET assigned_bot == IF old_bot = None THEN FindIdleBot(bp) ELSE old_bot
          IN IF assigned_bot = None THEN c0
             ELSE LET c1 == IF old_bot = None
                            THEN [c0 EXCEPT !.bp[assigned_bot].assigned = loop_name]
                            ELSE c0
                      c2 == IF new_state = TALK
                            THEN TalkCommands(c1, de, t, loop_name, assigned_bot)
                            ELSE IF new_state = LISTEN
                            THEN ListenCommands(c1, de, loop_name, assigned_bot, old_state)
                            ELSE c1
                  IN Record(c2, t, loop_name, new_state, assigned_bot)

\* on_loop_clicked asking for TALK from LISTEN whatever the loop can do
ClickTarget_AlwaysTalk(loop_name, old_state) ==
  IF old_state = OFF THEN LISTEN
  ELSE IF old_state = LISTEN THEN TALK ELSE LISTEN

\* on_loop_clicked switching a TALK loop off
ClickTarget_TalkToOff(loop_name, old_state) ==
  IF old_state = OFF THEN LISTEN
  ELSE IF old_state = LISTEN
       THEN (IF loop_configs[loop_name].can_talk THEN TALK ELSE LISTEN)
       ELSE OFF

\* the state MainWindow.on_loop_clicked asks for
ClickTarget(loop_name, old_state) ==
  IF old_state = OFF THEN LISTEN
  ELSE IF old_state = LISTEN
       THEN (IF loop_configs[loop_name].can_talk THEN TALK ELSE LISTEN)
       ELSE LISTEN

Op(kind, loop, state) == [op |-> kind, loop |-> loop, state |-> state]
\* slots that do not reach _update_bot_assignment carry the state -1
NoOp == Op("none", None, -1)

\* progress of Scenario 1 (clicks A, A, B, B from the initial state with
\* no other handler in between); -1 once the run has left the scenario
Scenario1Clicks == << "A", "A", "B", "B" >>
Scenario1Next(kind, loop, raised) ==
  IF scenario1 >= 0 /\ scenario1 < Len(Scenario1Clicks) /\ kind = "click"
     /\ ~raised /\ loop = Scenario1Clicks[scenario1 + 1]
  THEN scenario1 + 1 ELSE -1

\* a slot runs to its end, or to the post that raises: an exception that
\* escapes a PyQt6 slot aborts the process
Commit(r, kind, loop, state) ==
  /\ loop_states' = r.ls
  /\ bot_pool' = r.bp
  /\ sent' = r.sent
  /\ pc' = IF r.raised THEN "crashed" ELSE "done"
  /\ last_op' = Op(kind, loop, state)
  /\ prev_loop_states' = loop_states
  /\ prev_bot_pool' = bot_pool
  /\ scenario1' = Scenario1Next(kind, loop, r.raised)
  /\ UNCHANGED << delay_enabled, now >>
  /\ UNCHANGED bot_vars

\* MainWindow.on_loop_clicked; any one of the posts it makes may raise
OnLoopClicked(loop_name) ==
  /\ pc = "idle"
  /\ IF ~loop_configs[loop_name].can_listen
     THEN Commit(Ctx(loop_states, bot_pool, 0), "click_ignored", loop_name, -1)
     ELSE LET new_state == ClickTarget(loop_name, loop_states[loop_name].state)
              R(f) == UpdateBotAssignment(loop_states, bot_pool, delay_enabled, now,
                                          loop_name, new_state, f)
          IN \E f \in 0..R(0).n : Commit(R(f), "click", loop_name, new_state)

\* MainWindow.on_loop_off_clicked
OnLoopOffClicked(loop_name) ==
  /\ pc = "idle"
  /\ LET R(f) == UpdateBotAssignment(loop_states, bot_pool, delay_enabled, now,
                                     loop_name, OFF, f)
     IN \E f \in 0..R(0).n : Commit(R(f), "off", loop_name, OFF)

\* a direct call of _update_bot_assignment (the controller's setLoopState)
SetLoopState(loop_name, new_state) ==
  /\ pc = "idle"
  /\ LET R(f) == UpdateBotAssignment(loop_states, bot_pool, delay_enabled, now,
                                     loop_name, new_state, f)
     IN \E f \in 0..R(0).n : Commit(R(f), "set", loop_name, new_state)

\* the loop over the pool inside toggle_delay's single try block
RECURSIVE PostDelayToAll(_, _, _)
PostDelayToAll(c, de, i) ==
  IF i > Len(BOTS) \/ c.raised THEN c
  ELSE PostDelayToAll(Post(c, BOTS[i], IF de THEN "delay_on" ELSE "delay_off", None),
                      de, i + 1)

\* MainWindow.toggle_delay: the except clause swallows a failed post
ToggleDelay ==
  /\ pc = "idle"
  /\ \E f \in 0..Len(BOTS) :
       sent' = PostDelayToAll(Ctx(loop_states, bot_pool, f), ~delay_enabled, 1).sent
  /\ delay_enabled' = ~delay_enabled
  /\ pc' = "done"
  /\ last_op' = Op("toggle_delay", None, -1)
  /\ prev_loop_states' = loop_states
  /\ prev_bot_pool' = bot_pool
  /\ scenario1' = -1
  /\ UNCHANGED << loop_states, bot_pool, now >>
  /\ UNCHANGED bot_vars

\* the slot has returned: the GUI thread is back in the Qt event loop
Return ==
  /\ pc = "done"
  /\ pc' = "idle"
  /\ sent' = << >>
  /\ last_op' = NoOp
  /\ prev_loop_states' = loop_states
  /\ prev_bot_pool' = bot_pool
  /\ UNCHANGED << loop_states, bot_pool, delay_enabled, now, scenario1 >>
  /\ UNCHANGED bot_vars

\* the wall clock advances while the event loop waits
Tick ==
  /\ pc = "idle"
  /\ now < MaxTime
  /\ now' = now + 1
  /\ UNCHANGED << loop_states, bot_pool, delay_enabled, pc, sent, last_op,
                  prev_loop_states, prev_bot_pool, scenario1 >>
  /\ UNCHANGED bot_vars

\* a frame of the delay pipeline: the number of the chunk, the time.time()
\* put beside it, and whether disable_audio_delay has completed since it
\* was put in the queue
Frame(id, tstamp) == [id |-> id, tstamp |-> tstamp, stale |-> FALSE]
NoFrame == [id |-> 0, tstamp |-> 0, stale |-> FALSE]

\* the worker blocked in audio_delay_queue.get()
WorkerWaiting == [pc |-> "get", frame |-> NoFrame, waited |-> FALSE, wake |-> 0]
\* the callback not running
MicIdle == [pc |-> "idle", frame |-> NoFrame]

\* LoopBot.__init__
BotInit ==
  /\ audio_delay_queue = << >>
  /\ worker = WorkerWaiting
  /\ mic = MicIdle
  /\ handler = "idle"
  /\ consumed = << >>
  /\ next_frame = 1
  /\ scenario3 = 0
  /\ loop_bot = [loop |-> None, streaming |-> FALSE,
                 audio_delay_enabled |-> FALSE, playback_volume |-> 100]
  /\ outstream = << >>
  /\ playback = "running"

\* the three bot_server processes as started: not in a loop, muted
PoolInit ==
  /\ bot_servers = [b \in BotNames |->
               [loop |-> None, streaming |-> FALSE, audio_delay_enabled |-> FALSE]]
  /\ timers = << >>

\* MainWindow.__init__, with the bot processes started
Init ==
  /\ BotInit
  /\ PoolInit
  /\ loop_states = [l \in LoopNames |-> [state |-> OFF, bot |-> None]]
  /\ bot_pool = [b \in BotNames |-> [assigned |-> None, last_used |-> 0]]
  /\ delay_enabled = FALSE
  /\ now = 1
  /\ pc = "idle"
  /\ sent = << >>
  /\ last_op = NoOp
  /\ prev_loop_states = [l \in LoopNames |-> [state |-> OFF, bot |-> None]]
  /\ prev_bot_pool = [b \in BotNames |-> [assigned |-> None, last_used |-> 0]]
  /\ scenario1 = 0

Next ==
  \/ \E l \in LoopNames : OnLoopClicked(l)
  \/ \E l \in LoopNames : OnLoopOffClicked(l)
  \/ \E l \in LoopNames, s \in LoopStateValues : SetLoopState(l, s)
  \/ ToggleDelay
  \/ Return
  \/ Tick

Spec == Init /\ [][Next]_vars

TypeOK ==
  /\ loop_states \in [LoopNames -> [state : LoopStateValues, bot : BotNames \cup {None}]]
  /\ bot_pool \in [BotNames -> [assigned : LoopNames \cup {None}, last_used : 0..MaxTime]]
  /\ delay_enabled \in BOOLEAN
  /\ now \in 1..MaxTime
  /\ pc \in {"idle", "done", "crashed"}
  /\ scenario1 \in -1..Len(Scenario1Clicks)

\* ------------------------------------------------- the bot: playback thread

\* the range of dtype int16
INT16_MIN == -32768
INT16_MAX == 32767

\* the samples taken from _recv_q and the volumes asked of /set_volume, in
\* hundredths (the slider of the controller sends value / 100.0)
Samples == ((0 - MaxSample)..MaxSample) \cup {INT16_MIN, INT16_MAX}
VolumeRequests == (0 - MaxVolumeOver)..(100 + MaxVolumeOver)

RECURSIVE Pow2(_)
Pow2(n) == IF n = 0 THEN 1 ELSE 2 * Pow2(n - 1)

\* number of binary digits of n
RECURSIVE BitLen(_)
BitLen(n) == IF n = 0 THEN 0 ELSE 1 + BitLen(n \div 2)

\* q + r/d rounded to the nearest integer, ties to even (IEEE 754)
RoundHalfEven(q, r, d) ==
  IF 2 * r > d \/ (2 * r = d /\ q % 2 = 1) THEN q + 1 ELSE q

\* the least k with v/100 * 2^k >= 2^23
RECURSIVE Float32Exp(_, _)
Float32Exp(v, k) ==
  IF v * Pow2(k) >= 100 * Pow2(23) THEN k ELSE Float32Exp(v, k + 1)

\* v/100 as numpy converts it to float32 for "arr *= self.playback_volume":
\* the value m * 2^-k with a 24-bit m
Float32Volume(v) ==
  IF v = 0 THEN [m |-> 0, k |-> 23]
  ELSE LET k == Float32Exp(v, 0)
       IN [m |-> RoundHalfEven((v * Pow2(k)) \div 100, (v * Pow2(k)) % 100, 100),
           k |-> k]

\* the float32 product of a (an int16 magnitude, exact in float32) and the
\* 24-bit m: the exact product a * m rounded to 24 significant bits, as
\* q * 2^shift. The product is kept in two parts (hi * 2^12 + lo) so that
\* no intermediate value exceeds 31 bits.
Float32Mul(a, m) ==
  LET mh == m \div 4096
      ml == m % 4096
      hi == a * mh + (a * ml) \div 4096
      lo == (a * ml) % 4096
      len == IF hi = 0 THEN 0 ELSE BitLen(hi) + 12
      shift == IF len <= 24 THEN 0 ELSE len - 24
  IN IF shift = 0 THEN [q |-> hi * 4096 + lo, shift |-> 0]
     ELSE IF shift >= 12
     THEN [q |-> RoundHalfEven(hi \div Pow2(shift - 12),
                               (hi % Pow2(shift - 12)) * 4096 + lo, Pow2(shift)),
           shift |-> shift]
     ELSE [q |-> RoundHalfEven(hi * Pow2(12 - shift) + lo \div Pow2(shift),
                               lo % Pow2(shift), Pow2(shift)),
           shift |-> shift]

\* one sample through _playback_thread: astype(float32), "*=" by the volume
\* in float32, np.clip, and astype(int16), which cuts the fraction off
ScaleSample(sample, volume) ==
  LET a == IF sample < 0 THEN 0 - sample ELSE sample
      v == Float32Volume(volume)
      p == Float32Mul(a, v.m)
      mag == p.q \div Pow2(v.k - p.shift)
  IN IF sample < 0
     THEN (IF 0 - mag < INT16_MIN THEN INT16_MIN ELSE 0 - mag)
     ELSE (IF mag > INT16_MAX THEN INT16_MAX ELSE mag)

\* the sides an action of the relay leaves alone
RelayFrame ==
  /\ UNCHANGED << outstream, now, bot_servers, timers, playback >>
  /\ UNCHANGED << loop_states, bot_pool, delay_enabled, pc, sent, last_op,
                  prev_loop_states, prev_bot_pool, scenario1 >>

\* LoopBot.set_volume: max(0.0, min(1.0, float(vol))), in hundredths
ClampVolume(vol) ==
  IF vol < 0 THEN 0 ELSE IF vol > 100 THEN 100 ELSE vol

\* the route /set_volume
SetVolume(vol) ==
  /\ outstream = << >>
  /\ loop_bot' = [loop_bot EXCEPT !.playback_volume = ClampVolume(vol)]
  /\ UNCHANGED outstream
  /\ UNCHANGED relay_vars
  /\ UNCHANGED gui_vars
  /\ UNCHANGED pool_vars
  /\ UNCHANGED playback

\* one turn of the loop of _playback_thread on a chunk taken from _recv_q
PlaybackThread(pcm) ==
  /\ playback = "running"
  /\ outstream = << >>
  /\ outstream' = << [input |-> pcm, volume |-> loop_bot.playback_volume,
                      sample |-> ScaleSample(pcm, loop_bot.playback_volume)] >>
  /\ UNCHANGED loop_bot
  /\ UNCHANGED relay_vars
  /\ UNCHANGED gui_vars
  /\ UNCHANGED pool_vars
  /\ UNCHANGED playback

\* outstream.write has returned and the thread waits on _recv_q again
PlaybackWritten ==
  /\ playback = "running"
  /\ outstream # << >>
  /\ outstream' = << >>
  /\ UNCHANGED loop_bot
  /\ UNCHANGED relay_vars
  /\ UNCHANGED gui_vars
  /\ UNCHANGED pool_vars
  /\ UNCHANGED playback

PlaybackNext ==
  \/ \E vol \in VolumeRequests : SetVolume(vol)
  \/ \E pcm \in Samples : PlaybackThread(pcm)
  \/ PlaybackWritten

PlaybackSpec == Init /\ [][PlaybackNext]_vars

\* ------------------------------------------- the bot: delayed-audio relay

\* self.audio_delay_seconds; the controller always posts its delay_seconds
audio_delay_seconds == 3

\* what became of a frame: "played" (the worker passed it to add_sound),
\* "dropped" (the worker found the bot not streaming after the wait),
\* "discarded" (the worker found delay mode off when it took the frame),
\* "drained" (disable_audio_delay took it from the queue) or "direct" (the
\* callback passed it to add_sound without delay), whether the worker slept
\* for it, and whether disable_audio_delay had completed while it was held
Outcome(f, outcome, waited) ==
  [id |-> f.id, stale |-> f.stale, outcome |-> outcome, waited |-> waited]

\* Scenario 3: delay on, frame 1 captured at t0 while streaming (stage 1),
\* mute at t0 + 1 (stage 2) and no talk or delay_off afterwards; -1 once the
\* run has left the scenario
Scenario3AfterPut(f) ==
  IF scenario3 = 0 /\ f.id = 1 /\ loop_bot.streaming
     /\ loop_bot.audio_delay_enabled /\ handler = "idle" THEN 1
  ELSE IF f.id = 1 THEN -1 ELSE scenario3
Scenario3AfterMute(t0) ==
  IF scenario3 = 1 THEN (IF now = t0 + 1 THEN 2 ELSE -1) ELSE scenario3
Scenario3AfterTalk == IF scenario3 >= 1 THEN -1 ELSE scenario3

\* the frames in the pipeline: queued, or held by the worker
InPipeline ==
  {audio_delay_queue[i] : i \in 1..Len(audio_delay_queue)}
    \cup (IF worker.pc = "get" THEN {} ELSE {worker.frame})

\* the tstamp of frame 1, wherever the frame is (0 when it is nowhere)
TstampOfFirst ==
  LET first == {f \in InPipeline : f.id = 1}
  IN IF first = {} THEN -1 ELSE (CHOOSE f \in first : TRUE).tstamp

\* _mic_callback up to its test of audio_delay_enabled: with delay mode on
\* the chunk goes on to the put, otherwise it is passed to add_sound at once
\* when the bot is streaming (and is lost when it is not)
MicCallback ==
  /\ mic.pc = "idle"
  /\ next_frame <= MaxFrames
  /\ now + audio_delay_seconds <= MaxRelayTime
  /\ loop_bot.audio_delay_enabled \/ loop_bot.streaming
  /\ next_frame' = next_frame + 1
  /\ IF loop_bot.audio_delay_enabled
     THEN /\ mic' = [pc |-> "put", frame |-> Frame(next_frame, now)]
          /\ UNCHANGED << consumed, scenario3 >>
     ELSE /\ consumed' = Append(consumed,
                 Outcome(Frame(next_frame, now), "direct", FALSE))
          /\ scenario3' = IF next_frame = 1 THEN -1 ELSE scenario3
          /\ UNCHANGED mic
  /\ UNCHANGED << loop_bot, audio_delay_queue, worker, handler >>
  /\ RelayFrame

\* self.audio_delay_queue.put((time.time(), pcm))
MicPut ==
  /\ mic.pc = "put"
  /\ audio_delay_queue' = Append(audio_delay_queue, mic.frame)
  /\ scenario3' = Scenario3AfterPut(mic.frame)
  /\ mic' = MicIdle
  /\ UNCHANGED << loop_bot, worker, handler, consumed, next_frame >>
  /\ RelayFrame


\* the worker taking the newest frame of the queue instead of the oldest
WorkerGet_Last ==
  /\ worker.pc = "get"
  /\ audio_delay_queue # << >>
  /\ worker' = [WorkerWaiting EXCEPT !.pc = "got",
                   !.frame = audio_delay_queue[Len(audio_delay_queue)]]
  /\ audio_delay_queue' = SubSeq(audio_delay_queue, 1, Len(audio_delay_queue) - 1)
  /\ UNCHANGED << loop_bot, mic, handler, consumed, next_frame, scenario3 >>
  /\ RelayFrame

\* tstamp, pcm = self.audio_delay_queue.get()
WorkerGet ==
  /\ worker.pc = "get"
  /\ audio_delay_queue # << >>
  /\ worker' = [WorkerWaiting EXCEPT !.pc = "got", !.frame = Head(audio_delay_queue)]
  /\ audio_delay_queue' = Tail(audio_delay_queue)
  /\ UNCHANGED << loop_bot, mic, handler, consumed, next_frame, scenario3 >>
  /\ RelayFrame

\* the worker going to its playback test without any wait
WorkerCheck_NoWait ==
  /\ worker.pc = "got"
  /\ IF ~loop_bot.audio_delay_enabled
     THEN /\ consumed' = Append(consumed, Outcome(worker.frame, "discarded", FALSE))
          /\ worker' = WorkerWaiting
     ELSE /\ worker' = [worker EXCEPT !.pc = "sleep",
                           !.waited = FALSE, !.wake = now]
          /\ UNCHANGED consumed
  /\ UNCHANGED << loop_bot, audio_delay_queue, mic, handler, next_frame, scenario3 >>
  /\ RelayFrame

\* the worker putting a frame back in the queue when delay mode is off
WorkerCheck_Requeue ==
  /\ worker.pc = "got"
  /\ IF ~loop_bot.audio_delay_enabled
     THEN /\ audio_delay_queue' = Append(audio_delay_queue, worker.frame)
          /\ worker' = WorkerWaiting
     ELSE LET wait_needed == (worker.frame.tstamp + audio_delay_seconds) - now
          IN /\ worker' = [worker EXCEPT !.pc = "sleep",
                              !.waited = (wait_needed > 0),
                              !.wake = IF wait_needed > 0 THEN now + wait_needed ELSE now]
             /\ UNCHANGED audio_delay_queue
  /\ UNCHANGED << loop_bot, consumed, mic, handler, next_frame, scenario3 >>
  /\ RelayFrame

\* the worker after the get: the frame is discarded when delay mode is off;
\* otherwise wait_needed = (tstamp + audio_delay_seconds) - time.time() and
\* time.sleep(wait_needed) when that is positive
WorkerCheck ==
  /\ worker.pc = "got"
  /\ IF ~loop_bot.audio_delay_enabled
     THEN /\ consumed' = Append(consumed, Outcome(worker.frame, "discarded", FALSE))
          /\ worker' = WorkerWaiting
     ELSE LET wait_needed == (worker.frame.tstamp + audio_delay_seconds) - now
          IN /\ worker' = [worker EXCEPT !.pc = "sleep",
                              !.waited = (wait_needed > 0),
                              !.wake = IF wait_needed > 0 THEN now + wait_needed ELSE now]
             /\ UNCHANGED consumed
  /\ UNCHANGED << loop_bot, audio_delay_queue, mic, handler, next_frame, scenario3 >>
  /\ RelayFrame

\* the worker playing the frame without its test of self.streaming
WorkerPlay_NoTest ==
  /\ worker.pc = "sleep"
  /\ now >= worker.wake
  /\ consumed' = Append(consumed,
        Outcome(worker.frame, "played", worker.waited))
  /\ worker' = WorkerWaiting
  /\ UNCHANGED << loop_bot, audio_delay_queue, mic, handler, next_frame, scenario3 >>
  /\ RelayFrame

\* the worker once the sleep is over: add_sound(pcm) if self.streaming
WorkerPlay ==
  /\ worker.pc = "sleep"
  /\ now >= worker.wake
  /\ consumed' = Append(consumed,
        Outcome(worker.frame, IF loop_bot.streaming THEN "played" ELSE "dropped",
                worker.waited))
  /\ worker' = WorkerWaiting
  /\ UNCHANGED << loop_bot, audio_delay_queue, mic, handler, next_frame, scenario3 >>
  /\ RelayFrame

\* the route /delay_on: LoopBot.enable_audio_delay
EnableAudioDelay ==
  /\ handler = "idle"
  /\ ~loop_bot.audio_delay_enabled
  /\ loop_bot' = [loop_bot EXCEPT !.audio_delay_enabled = TRUE]
  /\ UNCHANGED << audio_delay_queue, worker, mic, handler, consumed, next_frame,
                  scenario3 >>
  /\ RelayFrame

\* the route /delay_off: LoopBot.disable_audio_delay clears the flag and
\* enters its loop over the queue
DisableAudioDelay ==
  /\ handler = "idle"
  /\ loop_bot' = [loop_bot EXCEPT !.audio_delay_enabled = FALSE]
  /\ handler' = "drain"
  /\ scenario3' = IF scenario3 >= 1 THEN -1 ELSE scenario3
  /\ UNCHANGED << audio_delay_queue, worker, mic, consumed, next_frame >>
  /\ RelayFrame

\* one turn of the loop: self.audio_delay_queue.get_nowait()
DrainOne ==
  /\ handler = "drain"
  /\ audio_delay_queue # << >>
  /\ consumed' = Append(consumed, Outcome(Head(audio_delay_queue), "drained", FALSE))
  /\ audio_delay_queue' = Tail(audio_delay_queue)
  /\ UNCHANGED << loop_bot, worker, mic, handler, next_frame, scenario3 >>
  /\ RelayFrame

\* the loop finds the queue empty and disable_audio_delay returns; a frame
\* the worker holds at that moment was captured before the disabling
DrainDone ==
  /\ handler = "drain"
  /\ audio_delay_queue = << >>
  /\ handler' = "idle"
  /\ worker' = IF worker.pc = "get" THEN worker
                ELSE [worker EXCEPT !.frame.stale = TRUE]
  /\ UNCHANGED << loop_bot, audio_delay_queue, mic, consumed, next_frame, scenario3 >>
  /\ RelayFrame

\* the route /talk: LoopBot.talk
Talk ==
  /\ ~loop_bot.streaming
  /\ loop_bot' = [loop_bot EXCEPT !.streaming = TRUE]
  /\ scenario3' = Scenario3AfterTalk
  /\ UNCHANGED << audio_delay_queue, worker, mic, handler, consumed, next_frame >>
  /\ RelayFrame

\* the route /mute: LoopBot.mute
Mute ==
  /\ loop_bot.streaming
  /\ loop_bot' = [loop_bot EXCEPT !.streaming = FALSE]
  /\ scenario3' = Scenario3AfterMute(TstampOfFirst)
  /\ UNCHANGED << audio_delay_queue, worker, mic, handler, consumed, next_frame >>
  /\ RelayFrame

\* a second passes; the callback and the loop of disable_audio_delay do not
\* take that long
RelayTick ==
  /\ now < MaxRelayTime
  /\ mic.pc = "idle"
  /\ handler = "idle"
  /\ now' = now + 1
  /\ UNCHANGED bot_vars
  /\ UNCHANGED << loop_states, bot_pool, delay_enabled, pc, sent, last_op,
                  prev_loop_states, prev_bot_pool, scenario1 >>

RelayNext ==
  \/ MicCallback
  \/ MicPut
  \/ WorkerGet
  \/ WorkerCheck
  \/ WorkerPlay
  \/ EnableAudioDelay
  \/ DisableAudioDelay
  \/ DrainOne
  \/ DrainDone
  \/ Talk
  \/ Mute
  \/ RelayTick

RelaySpec == Init /\ [][RelayNext]_vars

\* the threads of the bot process are scheduled, and the clock advances
\* however often a callback or a route is being served (no infinity of
\* commands within one second)
RelayFairSpec ==
  /\ RelaySpec
  /\ WF_vars(WorkerGet) /\ WF_vars(WorkerCheck) /\ WF_vars(WorkerPlay)
  /\ WF_vars(MicPut) /\ WF_vars(DrainOne) /\ WF_vars(DrainDone)
  /\ SF_vars(RelayTick)

\* -------------------------------------------- the controller and its bots

\* self.delay_seconds, the interval of the controller's talk timer
delay_seconds == 3

\* a one-shot timer: the controller's threading.Timer that posts /talk
\* ("talk"), or the sleeping thread of /mute_after_delay ("mute") or of
\* /leave_after_delay ("leave")
Timer(bot, kind, due) == [bot |-> bot, kind |-> kind, due |-> due]

\* the routes /join, /leave, /talk, /mute, /delay_on, /delay_off applied to
\* the bot the command was posted to
Route(bs, c) ==
  IF c.cmd = "join" THEN [bs EXCEPT ![c.bot].loop = c.arg]
  ELSE IF c.cmd = "leave" THEN [bs EXCEPT ![c.bot].loop = None]
  ELSE IF c.cmd = "talk" THEN [bs EXCEPT ![c.bot].streaming = TRUE]
  ELSE IF c.cmd = "mute" THEN [bs EXCEPT ![c.bot].streaming = FALSE]
  ELSE IF c.cmd = "delay_on" THEN [bs EXCEPT ![c.bot].audio_delay_enabled = TRUE]
  ELSE IF c.cmd = "delay_off" THEN [bs EXCEPT ![c.bot].audio_delay_enabled = FALSE]
  ELSE bs

\* the timers a command starts: /mute_after_delay and /leave_after_delay
\* start a thread that sleeps audio_delay_seconds, the controller starts
\* threading.Timer(delay_seconds)
Started(c, t) ==
  IF c.cmd = "mute_after_delay" THEN << Timer(c.bot, "mute", t + audio_delay_seconds) >>
  ELSE IF c.cmd = "leave_after_delay"
       THEN << Timer(c.bot, "leave", t + audio_delay_seconds) >>
  ELSE IF c.cmd = "talk_timer" THEN << Timer(c.bot, "talk", t + delay_seconds) >>
  ELSE << >>

\* the bots and the pending timers after the commands cmds[i..] of a
\* handler have been served, in the order in which they were posted
RECURSIVE Deliver(_, _, _, _, _)
Deliver(bs, ts, cmds, i, t) ==
  IF i > Len(cmds) THEN [bot_servers |-> bs, timers |-> ts]
  ELSE Deliver(Route(bs, cmds[i]), ts \o Started(cmds[i], t), cmds, i + 1, t)

\* Served, were a command posted to a bot to cancel what is pending for
\* that bot
Served_Debounce(r) ==
  LET kept == SelectSeq(timers, LAMBDA tm : \A k \in 1..Len(r.sent) : r.sent[k].bot # tm.bot)
      d == Deliver(bot_servers, kept, r.sent, 1, now)
  IN /\ Len(d.timers) <= MaxTimers
     /\ \A i \in 1..Len(d.timers) : d.timers[i].due <= MaxSystemTime
     /\ loop_states' = r.ls
     /\ bot_pool' = r.bp
     /\ bot_servers' = d.bot_servers
     /\ timers' = d.timers
     /\ UNCHANGED << now, pc, sent, last_op, prev_loop_states, prev_bot_pool,
                     scenario1, loop_bot, outstream, playback >>
     /\ UNCHANGED relay_vars

\* a handler of the controller runs to its end with every bot reachable:
\* its bookkeeping is stored and its commands are served by the bots; the
\* timers it starts expire before the clock stops
Served(r) ==
  LET d == Deliver(bot_servers, timers, r.sent, 1, now)
  IN /\ Len(d.timers) <= MaxTimers
     /\ \A i \in 1..Len(d.timers) : d.timers[i].due <= MaxSystemTime
     /\ loop_states' = r.ls
     /\ bot_pool' = r.bp
     /\ bot_servers' = d.bot_servers
     /\ timers' = d.timers
     /\ UNCHANGED << now, pc, sent, last_op, prev_loop_states, prev_bot_pool,
                     scenario1, loop_bot, outstream, playback >>
     /\ UNCHANGED relay_vars

\* MainWindow.on_loop_clicked with the bots answering
SystemOnLoopClicked(loop_name) ==
  /\ pc = "idle"
  /\ loop_configs[loop_name].can_listen
  /\ Served(UpdateBotAssignment(loop_states, bot_pool, delay_enabled, now, loop_name,
                                ClickTarget(loop_name, loop_states[loop_name].state), 0))
  /\ UNCHANGED delay_enabled

\* MainWindow.on_loop_off_clicked with the bots answering
SystemOnLoopOffClicked(loop_name) ==
  /\ pc = "idle"
  /\ Served(UpdateBotAssignment(loop_states, bot_pool, delay_enabled, now, loop_name,
                                OFF, 0))
  /\ UNCHANGED delay_enabled

\* MainWindow.toggle_delay with the bots answering
SystemToggleDelay ==
  /\ pc = "idle"
  /\ delay_enabled' = ~delay_enabled
  /\ Served(PostDelayToAll(Ctx(loop_states, bot_pool, 0), ~delay_enabled, 1))

\* timers[i] without the i-th timer
Without(ts, i) == SubSeq(ts, 1, i - 1) \o SubSeq(ts, i + 1, Len(ts))

\* a timer expires: the controller's lambda posts /talk, delayed_mute calls
\* bot.mute(), delayed_leave calls bot.mute() and bot.leave(); timers that
\* are due at the same moment expire in any order
TimerFires(i) ==
  /\ i \in 1..Len(timers)
  /\ timers[i].due <= now
  /\ LET b == timers[i].bot
         k == timers[i].kind
     IN bot_servers' = IF k = "talk" THEN [bot_servers EXCEPT ![b].streaming = TRUE]
                ELSE IF k = "mute" THEN [bot_servers EXCEPT ![b].streaming = FALSE]
                ELSE [bot_servers EXCEPT ![b].streaming = FALSE, ![b].loop = None]
  /\ timers' = Without(timers, i)
  /\ UNCHANGED << loop_bot, outstream, playback >>
  /\ UNCHANGED relay_vars
  /\ UNCHANGED gui_vars

\* time passes while no handler runs; a timer never oversleeps
SystemTick ==
  /\ pc = "idle"
  /\ now < MaxSystemTime
  /\ \A i \in 1..Len(timers) : timers[i].due > now
  /\ now' = now + 1
  /\ UNCHANGED << loop_states, bot_pool, delay_enabled, pc, sent, last_op,
                  prev_loop_states, prev_bot_pool, scenario1 >>
  /\ UNCHANGED bot_vars

\* the buttons pressed: those of the loops that can become TALK
SystemLoops == {l \in LoopNames : loop_configs[l].can_talk}

SystemNext ==
  \/ \E l \in SystemLoops : SystemOnLoopClicked(l)
  \/ \E l \in SystemLoops : SystemOnLoopOffClicked(l)
  \/ SystemToggleDelay
  \/ \E i \in 1..MaxTimers : TimerFires(i)
  \/ SystemTick

SystemSpec == Init /\ [][SystemNext]_vars


\* ------------------------------------------------------------- the claims

\* the last slot called _update_bot_assignment(l, s)
Called(l, s) ==
  /\ last_op.op \in {"click", "off", "set"}
  /\ last_op.loop = l
  /\ last_op.state = s

\* the last slot was of this kind and called _update_bot_assignment(l, s)
Did(kind, l, s) == last_op.op = kind /\ last_op.loop = l /\ last_op.state = s

TalkLoops == {l \in LoopNames : loop_states[l].state = TALK}
ActiveLoops == {l \in LoopNames : loop_states[l].state # OFF}

\* C1: in every reachable state, whatever clicks, off requests, direct
\* state requests and delay toggles led to it (a raised post included), at
\* most one loop of loop_states is TALK.
C1_AtMostOneTalk == Cardinality(TalkLoops) <= 1

\* C1 witness: a loop has just become TALK and the loop that was TALK before
\* is now LISTEN.
C1_Witness ==
  /\ pc = "done"
  /\ \E l \in LoopNames, o \in LoopNames :
       /\ l # o
       /\ Called(l, TALK)
       /\ prev_loop_states[o].state = TALK
       /\ loop_states[o].state = LISTEN
       /\ loop_states[l].state = TALK

\* C2: in every reachable state no bot is recorded as the bot of two loops,
\* no loop is recorded as the loop of two bots, and the loops that are not
\* OFF are at most as many as the bots of the pool.
C2_AssignmentInjective ==
  /\ \A l1 \in LoopNames, l2 \in LoopNames :
       (l1 # l2 /\ loop_states[l1].bot # None) => loop_states[l1].bot # loop_states[l2].bot
  /\ \A b1 \in BotNames, b2 \in BotNames :
       (b1 # b2 /\ bot_pool[b1].assigned # None) => bot_pool[b1].assigned # bot_pool[b2].assigned
  /\ Cardinality(ActiveLoops) <= Len(BOTS)

\* C2 witness: every bot of the pool serves a loop of its own.
C2_Witness ==
  /\ Cardinality(ActiveLoops) = Len(BOTS)
  /\ \A b \in BotNames : bot_pool[b].assigned # None
  /\ Cardinality({loop_states[l].bot : l \in ActiveLoops}) = Len(BOTS)

\* C3: in every reachable state, a raised post included, a bot's assigned
\* field names loop L exactly when L is not OFF and L's recorded bot is that
\* bot; an OFF loop has no bot.
C3_AssignedIffServing ==
  /\ \A b \in BotNames, l \in LoopNames :
       bot_pool[b].assigned = l <=> (loop_states[l].state # OFF /\ loop_states[l].bot = b)
  /\ \A l \in LoopNames : loop_states[l].state = OFF => loop_states[l].bot = None

\* the last slot was a click on loop l that reached _update_bot_assignment
Clicked(l) == last_op.op = "click" /\ last_op.loop = l

\* a bot was at hand for loop l when the last slot started
BotAvailable(l) ==
  prev_loop_states[l].bot # None \/ IdleBots(prev_bot_pool) # << >>

ListenOnly(l) == loop_configs[l].can_listen /\ ~loop_configs[l].can_talk

\* what _update_bot_assignment(l, OFF) would have made of the bookkeeping
\* the last slot found
OffResult(l) ==
  UpdateBotAssignment(prev_loop_states, prev_bot_pool, delay_enabled, now, l, OFF, 0)

\* C4: for every loop that cannot talk, whether or not it can listen, a
\* request for TALK is treated exactly as a request for OFF: the loop ends OFF
\* with its bot released, and bookkeeping and commands are those of OFF.
C4_TalkRequestClampedToOff ==
  \A l \in LoopNames :
    (pc = "done" /\ ~loop_configs[l].can_talk /\ Did("set", l, TALK)) =>
       /\ loop_states[l] = [state |-> OFF, bot |-> None]
       /\ prev_loop_states[l].bot # None =>
            bot_pool[prev_loop_states[l].bot].assigned = None
       /\ loop_states = OffResult(l).ls
       /\ bot_pool = OffResult(l).bp
       /\ sent = OffResult(l).sent

\* C5 as stated: on a listen-only loop with a bot at hand the first click
\* moves the loop from OFF to LISTEN, and the second click leaves it OFF with
\* its bot released.
C5_SecondClickTurnsOff ==
  \A l \in LoopNames :
    (pc = "done" /\ ListenOnly(l) /\ Clicked(l)) =>
       /\ (prev_loop_states[l].state = OFF /\ BotAvailable(l)) =>
            loop_states[l].state = LISTEN
       /\ prev_loop_states[l].state = LISTEN =>
            /\ loop_states[l] = [state |-> OFF, bot |-> None]
            /\ bot_pool[prev_loop_states[l].bot].assigned = None

\* C5 amended: on a listen-only loop with a bot at hand the first click moves
\* the loop from OFF to LISTEN, and the second click leaves it LISTEN on the
\* same bot, which is sent join and mute again.
C5_SecondClickStaysListen ==
  \A l \in LoopNames :
    (pc = "done" /\ ListenOnly(l) /\ Clicked(l)) =>
       /\ (prev_loop_states[l].state = OFF /\ BotAvailable(l)) =>
            loop_states[l].state = LISTEN
       /\ prev_loop_states[l].state = LISTEN =>
            /\ loop_states[l] = [state |-> LISTEN, bot |-> prev_loop_states[l].bot]
            /\ bot_pool[prev_loop_states[l].bot].assigned = l
            /\ sent = << Cmd(loop_states[l].bot, "join", l),
                         Cmd(loop_states[l].bot, "mute", None) >>

\* C5 witness: a listen-only loop that was LISTEN has been clicked again.
C5_Witness ==
  /\ pc = "done"
  /\ \E l \in LoopNames :
       /\ ListenOnly(l) /\ Clicked(l)
       /\ prev_loop_states[l].state = LISTEN
       /\ prev_loop_states[l].bot # None
       /\ loop_states[l].state = LISTEN

\* C6: a click on a listenable loop with a bot at hand takes OFF to LISTEN,
\* LISTEN to TALK if the loop can talk and to LISTEN if it cannot, and TALK to
\* LISTEN; no click, not even one whose post raises, takes a loop that is
\* LISTEN or TALK to OFF.
C6_ClickCycle ==
  \A l \in LoopNames :
    LET old == prev_loop_states[l].state
        new == loop_states[l].state
    IN /\ (pc = "done" /\ Clicked(l) /\ BotAvailable(l)) =>
            /\ old = OFF => new = LISTEN
            /\ old = LISTEN => new = (IF loop_configs[l].can_talk THEN TALK ELSE LISTEN)
            /\ old = TALK => new = LISTEN
       /\ (pc \in {"done", "crashed"} /\ Clicked(l) /\ old # OFF) => new # OFF

\* C6 witness: a click has taken a TALK loop back to LISTEN.
C6_Witness ==
  /\ pc = "done"
  /\ \E l \in LoopNames :
       /\ Clicked(l)
       /\ prev_loop_states[l].state = TALK
       /\ loop_states[l].state = LISTEN

\* the last slot asked for LISTEN or TALK on loop l, which had no bot, while
\* every bot of the pool was assigned
ExhaustedRequest(l) ==
  /\ pc \in {"done", "crashed"}
  /\ last_op.op \in {"click", "set"}
  /\ last_op.loop = l
  /\ last_op.state \in {LISTEN, TALK}
  /\ prev_loop_states[l].bot = None
  /\ \A b \in BotNames : prev_bot_pool[b].assigned # None

\* C7: a request for LISTEN or TALK on a loop with no bot while every bot is
\* assigned does nothing: no command is sent, no TALK loop is demoted, no
\* bot's assignment or last_used changes, and the loop remains OFF.
C7_ExhaustedPoolNoOp ==
  \A l \in LoopNames :
    ExhaustedRequest(l) =>
       /\ pc = "done"
       /\ sent = << >>
       /\ loop_states = prev_loop_states
       /\ bot_pool = prev_bot_pool
       /\ loop_states[l] = [state |-> OFF, bot |-> None]

\* C7 witness: TALK was asked for a loop while all three bots served other
\* loops, one of them TALK.
C7_Witness ==
  \E l \in LoopNames :
    /\ ExhaustedRequest(l)
    /\ last_op.state = TALK
    /\ \E o \in LoopNames : o # l /\ loop_states[o].state = TALK

\* bot b had no loop when the last slot started and has one now
NewlyAssigned(b) ==
  prev_bot_pool[b].assigned = None /\ bot_pool[b].assigned # None

\* C8: the bot an activation takes is an unassigned bot whose last_used is
\* least among the unassigned bots.
C8_LeastRecentlyUsed ==
  pc \in {"done", "crashed"} =>
    \A b \in BotNames :
      NewlyAssigned(b) =>
        \A o \in BotNames :
          prev_bot_pool[o].assigned = None =>
            prev_bot_pool[b].last_used <= prev_bot_pool[o].last_used

\* C8 witness: of two idle bots the later one in the pool had the smaller
\* last_used and has been taken.
C8_Witness ==
  /\ pc = "done"
  /\ \E i \in 1..Len(BOTS), j \in 1..Len(BOTS) :
       /\ i < j
       /\ NewlyAssigned(BOTS[j])
       /\ prev_bot_pool[BOTS[i]].assigned = None
       /\ prev_bot_pool[BOTS[j]].last_used < prev_bot_pool[BOTS[i]].last_used

\* C9: OFF on a loop that is already OFF sends no command and changes no
\* loop state, assignment or last_used; and after any OFF that returned, a
\* second OFF on the same loop would change nothing and send nothing.
C9_OffIdempotent ==
  \A l \in LoopNames :
    /\ (pc \in {"done", "crashed"} /\ Called(l, OFF) /\ prev_loop_states[l].state = OFF) =>
          /\ pc = "done"
          /\ sent = << >>
          /\ loop_states = prev_loop_states
          /\ bot_pool = prev_bot_pool
    /\ (pc = "done" /\ Called(l, OFF)) =>
          LET again == UpdateBotAssignment(loop_states, bot_pool, delay_enabled,
                                           now, l, OFF, 0)
          IN again.ls = loop_states /\ again.bp = bot_pool /\ again.sent = << >>

\* C9 witness: the OFF button of a loop that was already OFF has been pressed
\* while another loop holds a bot.
C9_Witness ==
  /\ pc = "done"
  /\ \E l \in LoopNames :
       /\ Did("off", l, OFF)
       /\ prev_loop_states[l].state = OFF
       /\ \E o \in LoopNames : loop_states[o].bot # None

HasCmd(b, cmd) == \E k \in 1..Len(sent) : sent[k].bot = b /\ sent[k].cmd = cmd

\* C10: from the initial state (all loops OFF, three idle bots with equal
\* last_used, delay off) the clicks A, A, B, B give A the first bot, make A
\* TALK, give B the second bot, and then leave A LISTEN on the first bot,
\* which got a mute and no leave, B TALK on the second bot, which got join
\* and talk, and the third bot idle.
C10_Scenario1 ==
  /\ scenario1 = 1 => loop_states["A"] = [state |-> LISTEN, bot |-> BOTS[1]]
  /\ scenario1 = 2 => loop_states["A"] = [state |-> TALK, bot |-> BOTS[1]]
  /\ scenario1 = 3 =>
       /\ loop_states["A"] = [state |-> TALK, bot |-> BOTS[1]]
       /\ loop_states["B"] = [state |-> LISTEN, bot |-> BOTS[2]]
  /\ scenario1 = 4 =>
       /\ loop_states["A"] = [state |-> LISTEN, bot |-> BOTS[1]]
       /\ loop_states["B"] = [state |-> TALK, bot |-> BOTS[2]]
       /\ bot_pool[BOTS[1]].assigned = "A"
       /\ bot_pool[BOTS[2]].assigned = "B"
       /\ bot_pool[BOTS[3]] = [assigned |-> None, last_used |-> 0]
       /\ pc = "done" =>
            sent = << Cmd(BOTS[1], "mute", None),
                      Cmd(BOTS[2], "join", "B"),
                      Cmd(BOTS[2], "talk", None) >>
  /\ (scenario1 \in 1..4 /\ pc = "done") =>
       \A b \in BotNames : ~HasCmd(b, "leave") /\ ~HasCmd(b, "leave_after_delay")

\* C10 witness: the fourth click of the scenario has just returned.
C10_Witness == scenario1 = 4 /\ pc = "done"

\* the commands delivered to bot b by the slot that just ran, in order
CmdsTo(b) ==
  LET ToBot(c) == c.bot = b
  IN SelectSeq(sent, ToBot)

\* the slot that just returned asked for TALK on loop l and l is now TALK
BecameTalk(l) ==
  /\ pc = "done"
  /\ last_op.op \in {"click", "set"}
  /\ last_op.loop = l
  /\ last_op.state = TALK
  /\ loop_states[l].state = TALK

\* C18: when a loop becomes TALK, a loop that was TALK is demoted to LISTEN
\* on the same bot, and that bot gets exactly one command, mute_after_delay
\* when delay mode is on and mute otherwise (no leave, no join), delivered
\* before the join and the talk (or the start of the talk timer) of the bot
\* of the loop that becomes TALK.
C18_DemoteBeforeTalk ==
  \A l, o \in LoopNames :
    (BecameTalk(l) /\ o # l /\ prev_loop_states[o].state = TALK) =>
      LET b == prev_loop_states[o].bot
          nb == loop_states[l].bot
      IN /\ loop_states[o] = [state |-> LISTEN, bot |-> b]
         /\ bot_pool[b].assigned = o
         /\ nb # b
         /\ sent = << Cmd(b, IF delay_enabled THEN "mute_after_delay" ELSE "mute", None),
                      Cmd(nb, "join", l),
                      Cmd(nb, IF delay_enabled THEN "talk_timer" ELSE "talk", None) >>

\* C18 witness: with delay mode on, a loop has just become TALK while
\* another loop was TALK.
C18_Witness ==
  \E l, o \in LoopNames :
    /\ BecameTalk(l) /\ o # l /\ prev_loop_states[o].state = TALK
    /\ delay_enabled
    /\ loop_states[o].state = LISTEN

\* the slot that just returned was an explicit OFF request for loop l
OffRequested(l) ==
  /\ pc = "done"
  /\ last_op.op \in {"off", "set"}
  /\ last_op.loop = l
  /\ last_op.state = OFF

\* C19: an explicit OFF request leaves the loop OFF with no bot; a bot that
\* served it is released with last_used set to the time of the request and
\* gets leave_after_delay alone when delay mode is on and the loop was TALK,
\* and leave followed by mute in every other case; no other bot is touched.
C19_OffReleasesBot ==
  \A l \in LoopNames :
    OffRequested(l) =>
      LET b == prev_loop_states[l].bot
      IN /\ loop_states[l] = [state |-> OFF, bot |-> None]
         /\ \A o \in LoopNames \ {l} : loop_states[o] = prev_loop_states[o]
         /\ IF b = None
            THEN sent = << >> /\ bot_pool = prev_bot_pool
            ELSE /\ bot_pool[b] = [assigned |-> None, last_used |-> now]
                 /\ \A x \in BotNames \ {b} : bot_pool[x] = prev_bot_pool[x]
                 /\ sent = IF delay_enabled /\ prev_loop_states[l].state = TALK
                           THEN << Cmd(b, "leave_after_delay", None) >>
                           ELSE << Cmd(b, "leave", None), Cmd(b, "mute", None) >>

\* C19 witness: with delay mode on, a TALK loop has just been switched off
\* and its bot was last used earlier than now.
C19_Witness ==
  \E l \in LoopNames :
    /\ OffRequested(l)
    /\ delay_enabled
    /\ prev_loop_states[l].state = TALK
    /\ prev_bot_pool[prev_loop_states[l].bot].last_used < now

\* loop o went from TALK to LISTEN in the slot that just returned
TalkToListen(o) ==
  /\ pc = "done"
  /\ prev_loop_states[o].state = TALK
  /\ loop_states[o].state = LISTEN

\* C20: a loop that goes from TALK to LISTEN (by a request for the loop or
\* by the demotion that another loop's TALK causes) keeps its bot, and the
\* bot gets no leave: with delay mode on it gets mute_after_delay alone,
\* otherwise its last command is mute and any join it gets names the loop
\* it already serves.
C20_TalkToListenKeepsBot ==
  \A o \in LoopNames :
    TalkToListen(o) =>
      LET b == prev_loop_states[o].bot
      IN /\ loop_states[o].bot = b
         /\ bot_pool[b].assigned = o
         /\ ~HasCmd(b, "leave") /\ ~HasCmd(b, "leave_after_delay")
         /\ IF delay_enabled
            THEN CmdsTo(b) = << Cmd(b, "mute_after_delay", None) >>
            ELSE /\ CmdsTo(b) # << >>
                 /\ CmdsTo(b)[Len(CmdsTo(b))] = Cmd(b, "mute", None)
                 /\ \A k \in 1..Len(CmdsTo(b)) :
                      \/ CmdsTo(b)[k] = Cmd(b, "mute", None)
                      \/ CmdsTo(b)[k] = Cmd(b, "join", o)

\* C20 witness: a click on a TALK loop has just taken it back to LISTEN
\* with delay mode off, so that its bot got join and mute.
C20_Witness ==
  \E o \in LoopNames :
    /\ TalkToListen(o)
    /\ Clicked(o)
    /\ ~delay_enabled
    /\ Len(CmdsTo(prev_loop_states[o].bot)) = 2

\* the i-th consumed frame was passed to add_sound by the delay worker
Played(i) == consumed[i].outcome = "played"

\* the step in which the delay worker ends its wait for the frame it holds
WorkerEndsWait == worker.pc = "sleep" /\ worker'.pc = "get"

\* what the last step recorded about the frame it consumed
LastConsumed == consumed'[Len(consumed')]

\* C11: the delay worker plays frames in capture order: of two frames it
\* played, the one captured first (the lower number) was played first.
C11_PlayedInCaptureOrder ==
  \A i, j \in 1..Len(consumed) :
    (i < j /\ Played(i) /\ Played(j)) => consumed[i].id < consumed[j].id

\* C11 witness: two frames were both played by the worker, the first after
\* a sleep and the second, whose wait was computed later, without one.
C11_Witness ==
  \E i, j \in 1..Len(consumed) :
    /\ i < j /\ Played(i) /\ Played(j)
    /\ consumed[i].waited /\ ~consumed[j].waited

\* C12: no frame that was in the delay pipeline when disable_audio_delay
\* completed (queued, or already taken by the worker) is played afterwards.
C12_NoPlayAfterDisable ==
  \A i \in 1..Len(consumed) : Played(i) => ~consumed[i].stale

\* C13: when the worker's wait for a frame ends, the frame is played if the
\* bot is streaming at that moment and dropped if it is not; and in
\* Scenario 3 (frame captured at t0 while streaming, mute at t0 + 1, delay
\* of 3) the frame is dropped, never played.
C13_LateBindingMute ==
  /\ [][WorkerEndsWait =>
          LastConsumed.outcome = (IF loop_bot.streaming THEN "played" ELSE "dropped")]_vars
  /\ [](scenario3 = 2 =>
          \A i \in 1..Len(consumed) :
            consumed[i].id = 1 => consumed[i].outcome = "dropped")

\* C13 witness: Scenario 3 has run to its end: the frame captured while the
\* bot was streaming has been dropped after the mute.
C13_Witness ==
  /\ scenario3 = 2
  /\ \E i \in 1..Len(consumed) :
       consumed[i].id = 1 /\ consumed[i].outcome = "dropped"

\* C14: the worker's wait for a frame never ends before tstamp +
\* audio_delay_seconds, so no frame is played earlier; and the worker does
\* not sleep for a frame whose deadline had passed when it computed the
\* wait: such a frame can be played at once.
C14_NotBeforeDelay ==
  /\ [][WorkerEndsWait => now >= worker.frame.tstamp + audio_delay_seconds]_vars
  /\ [](worker.pc = "sleep" =>
          /\ worker.wake >= worker.frame.tstamp + audio_delay_seconds
          /\ worker.waited => worker.wake = worker.frame.tstamp + audio_delay_seconds
          /\ ~worker.waited => worker.wake <= now)

\* C14 witness: one frame was played after a sleep and another at once,
\* because its deadline had passed when the worker took it.
C14_Witness ==
  \E i, j \in 1..Len(consumed) :
    /\ Played(i) /\ consumed[i].waited
    /\ Played(j) /\ ~consumed[j].waited
    /\ worker.pc = "get"

\* frame n is in the delay pipeline: queued or held by the worker
Enqueued(n) == \E f \in InPipeline : f.id = n
\* frame n has been played, dropped, discarded or drained
Done(n) == \E i \in 1..Len(consumed) : consumed[i].id = n

\* C15: every frame put in the delay queue is consumed exactly once: it is
\* never recorded twice (so never played twice, never both played and
\* dropped), it is not consumed while still in the pipeline, and with the
\* threads scheduled fairly it is eventually played, dropped, discarded or
\* drained.
C15_ConsumedExactlyOnce ==
  /\ [](\A i, j \in 1..Len(consumed) : i # j => consumed[i].id # consumed[j].id)
  /\ [](\A n \in 1..MaxFrames : ~(Enqueued(n) /\ Done(n)))
  /\ \A n \in 1..MaxFrames : Enqueued(n) ~> Done(n)

\* C15 witness: two frames went through the queue; one was drained by
\* disable_audio_delay and the other was played by the worker.
C15_Witness ==
  \E i, j \in 1..Len(consumed) :
    /\ consumed[i].outcome = "drained"
    /\ consumed[j].outcome = "played"

\* the bots that are transmitting
Streaming == {b \in BotNames : bot_servers[b].streaming}

\* C16: at every instant at most one bot of the pool has streaming = true,
\* whatever the order of the controller's commands, the delay toggles and
\* the expiries of the one-shot timers.
C16_AtMostOneStreaming == Cardinality(Streaming) <= 1

\* C17: every sample the playback thread writes is the value of
\* clamp(input * volume, -32768, 32767) for the volume it read, where a
\* value that is not a whole number may be written as either neighbouring
\* whole number; and the volume always lies in [0, 1].
C17_VolumeLaw ==
  /\ loop_bot.playback_volume \in 0..100
  /\ \A i \in 1..Len(outstream) :
       LET exact == outstream[i].input * outstream[i].volume
           out == outstream[i].sample
       IN /\ out \in INT16_MIN..INT16_MAX
          /\ 100 * out - exact < 100
          /\ exact - 100 * out < 100

\* C17, the range of the volume alone
C17_VolumeInRange == loop_bot.playback_volume \in 0..100

\* the slot that just ran (to its end or to a post that raised) called
\* _update_bot_assignment for loop l
Requested(l) ==
  /\ pc \in {"done", "crashed"}
  /\ last_op.op \in {"click", "off", "set"}
  /\ last_op.loop = l

\* loop o was demoted by the slot that just ran: TALK before, LISTEN on the
\* same bot now
Demoted(o) ==
  /\ prev_loop_states[o].state = TALK
  /\ loop_states[o] = [state |-> LISTEN, bot |-> prev_loop_states[o].bot]

\* C30: a call of _update_bot_assignment for loop l changes the entry of
\* another loop only by demoting it from TALK to LISTEN on the same bot,
\* and only when the call asked for TALK (and, when the call returns, made
\* l TALK); every bot that was assigned to another loop stays assigned to
\* that loop.
C30_FrameEffect ==
  \A l \in LoopNames :
    Requested(l) =>
      /\ \A o \in LoopNames \ {l} :
           \/ loop_states[o] = prev_loop_states[o]
           \/ /\ Demoted(o)
              /\ ClampState(l, last_op.state) = TALK
              /\ pc = "done" => loop_states[l].state = TALK
      /\ \A b \in BotNames :
           prev_bot_pool[b].assigned \notin {None, l} =>
             bot_pool[b].assigned = prev_bot_pool[b].assigned

\* C30 witness: a request has just made B TALK; A, which was TALK, is LISTEN
\* on its bot, and C, which was LISTEN, is as it was.
C30_Witness ==
  /\ Requested("B") /\ pc = "done"
  /\ loop_states["B"].state = TALK
  /\ Demoted("A")
  /\ prev_loop_states["C"].state = LISTEN
  /\ loop_states["C"] = prev_loop_states["C"]

\* what _update_bot_assignment leaves in the bookkeeping when every post of
\* the call the last slot made succeeds
FailureFree ==
  UpdateBotAssignment(prev_loop_states, prev_bot_pool, delay_enabled, now,
                      last_op.loop, last_op.state, 0)

\* C22: when a post to a bot fails during a loop state change, the
\* bookkeeping ends as in the run without the failure: the same loop
\* states, and the same assigned and last_used for every bot.
C22_FailureSwallowed ==
  (pc = "crashed" /\ last_op.op \in {"click", "off", "set"}) =>
     /\ loop_states = FailureFree.ls
     /\ bot_pool = FailureFree.bp

\* C29: a delay toggle is sent to every bot of the pool but the one whose
\* post failed: a failure for one bot does not keep the command from the
\* others.
C29_ToggleReachesAll ==
  last_op.op = "toggle_delay" =>
    LET cmd == IF delay_enabled THEN "delay_on" ELSE "delay_off"
    IN Cardinality({b \in BotNames : ~HasCmd(b, cmd)}) <= 1

\* ------------------------------------------------ a bot that never replies

\* requests.post is called without a timeout: when the bot takes the request
\* and never replies, the call never returns, and the slot and the GUI
\* thread with it stay inside that post. r is the handler at that post.
Unanswered(r, kind, loop, state) ==
  /\ loop_states' = r.ls
  /\ bot_pool' = r.bp
  /\ sent' = r.sent
  /\ pc' = "blocked"
  /\ last_op' = Op(kind, loop, state)
  /\ prev_loop_states' = loop_states
  /\ prev_bot_pool' = bot_pool
  /\ scenario1' = -1
  /\ UNCHANGED << delay_enabled, now >>
  /\ UNCHANGED bot_vars

\* MainWindow.on_loop_clicked when one of its posts is never answered
OnLoopClickedUnanswered(loop_name) ==
  /\ pc = "idle"
  /\ loop_configs[loop_name].can_listen
  /\ LET new_state == ClickTarget(loop_name, loop_states[loop_name].state)
         R(f) == UpdateBotAssignment(loop_states, bot_pool, delay_enabled, now,
                                     loop_name, new_state, f)
     IN \E f \in 1..R(0).n : Unanswered(R(f), "click", loop_name, new_state)

\* MainWindow.on_loop_off_clicked when one of its posts is never answered
OnLoopOffClickedUnanswered(loop_name) ==
  /\ pc = "idle"
  /\ LET R(f) == UpdateBotAssignment(loop_states, bot_pool, delay_enabled, now,
                                     loop_name, OFF, f)
     IN \E f \in 1..R(0).n : Unanswered(R(f), "off", loop_name, OFF)

ReplyNext ==
  \/ Next
  \/ \E l \in LoopNames : OnLoopClickedUnanswered(l)
  \/ \E l \in LoopNames : OnLoopOffClickedUnanswered(l)

ReplySpec == Init /\ [][ReplyNext]_vars

\* C24: a loop state change whose command is never answered still updates
\* the bookkeeping as the answered call does, and the controller goes on to
\* serve the next click.
C24_NeverWaits ==
  pc = "blocked" =>
    /\ loop_states = FailureFree.ls
    /\ bot_pool = FailureFree.bp
    /\ ENABLED (\E l \in LoopNames : OnLoopClicked(l))

\* ------------------------------------------------- faults in the bot threads

\* the chunks the playback thread is given in the model with faults
FaultSamples == {INT16_MIN, 0, INT16_MAX}

\* an exception raised in the loop of _playback_thread (np.frombuffer on a
\* chunk of odd length, outstream.write on a device fault): the function has
\* no try statement, so the exception leaves it and the thread ends
PlaybackFault ==
  /\ playback = "running"
  /\ outstream = << >>
  /\ playback' = "terminated"
  /\ UNCHANGED << loop_bot, outstream >>
  /\ UNCHANGED relay_vars
  /\ UNCHANGED gui_vars
  /\ UNCHANGED pool_vars

\* an exception raised while _delay_audio_worker plays a frame: add_sound's
\* is caught and printed by the inner try, any other by the outer one, which
\* sleeps 10 ms; either way the frame is lost and the loop goes on
WorkerFault ==
  /\ worker.pc = "sleep"
  /\ now >= worker.wake
  /\ loop_bot.streaming
  /\ consumed' = Append(consumed, Outcome(worker.frame, "faulted", worker.waited))
  /\ worker' = WorkerWaiting
  /\ UNCHANGED << loop_bot, audio_delay_queue, mic, handler, next_frame, scenario3 >>
  /\ RelayFrame

FaultNext ==
  \/ RelayNext
  \/ WorkerFault
  \/ \E pcm \in FaultSamples : PlaybackThread(pcm)
  \/ PlaybackWritten
  \/ PlaybackFault

FaultSpec == Init /\ [][FaultNext]_vars

\* C25: no fault ends the delay worker or the playback thread: the worker
\* is always in its loop and the playback thread is always running.
C25_WorkersSurvive ==
  /\ worker.pc \in {"get", "got", "sleep"}
  /\ playback = "running"

\* the i-th consumed frame was passed to add_sound, by the delay worker or
\* by the microphone callback itself
Transmitted(i) == consumed[i].outcome \in {"played", "direct"}

\* C28: whatever the sequence of /delay_on and /delay_off, the frames the
\* bot passes to add_sound are passed in capture order: of two transmitted
\* frames the one captured first was transmitted first.
C28_TransmittedInCaptureOrder ==
  \A i, j \in 1..Len(consumed) :
    (i < j /\ Transmitted(i) /\ Transmitted(j)) => consumed[i].id < consumed[j].id

\* --------------------------------------------- the payloads of the routes

\* the body of a POST: not JSON at all, or a JSON object in which the
\* field the route reads is missing, is a string that is no number, or is
\* the value val
Payload(kind, val) == [kind |-> kind, val |-> val]
NotJson == Payload("not_json", None)
Missing == Payload("missing", None)
NotNumeric == Payload("text", None)
LoopPayloads == {NotJson, Missing} \cup {Payload("loop", l) : l \in LoopNames}
SecondsPayloads == {NotJson, Missing, NotNumeric, Payload("number", None)}
VolumePayloads == {NotJson, Missing, NotNumeric}
\* malformed: a body that is not JSON, a field that should be a number and
\* is not, a join that names no loop (a missing seconds or volume field
\* stands for the default, 3 or 1.0)
Malformed(route, p) ==
  \/ p.kind \in {"not_json", "text"}
  \/ route = "join" /\ p.kind = "missing"

\* what a route leaves alone
RouteFrame ==
  /\ UNCHANGED << audio_delay_queue, worker, mic, handler, consumed, next_frame,
                  scenario3 >>
  /\ RelayFrame

\* the route /join: bot.join(request.json.get('loop')). request.json raises
\* on a body that is not JSON; a missing field reads as None, and join(None)
\* is leave()
JoinRoute(p) ==
  /\ loop_bot' = IF p.kind = "not_json" THEN loop_bot
                 ELSE [loop_bot EXCEPT !.loop = p.val]
  /\ RouteFrame

\* the route /delay_on: seconds = request.json.get('seconds', 3), then
\* bot.enable_audio_delay(seconds), which sets the flag and stores seconds
\* as it came, a number or not
DelayOnRoute(p) ==
  /\ handler = "idle"
  /\ loop_bot' = IF p.kind = "not_json" THEN loop_bot
                 ELSE [loop_bot EXCEPT !.audio_delay_enabled = TRUE]
  /\ RouteFrame

\* the route /set_volume: vol = float(request.json.get('volume', 1.0)),
\* which raises on a string that is no number, then bot.set_volume(vol);
\* vol is the number the body carries, in hundredths
SetVolumeRoute(p, vol) ==
  /\ loop_bot' =
       IF p.kind \in {"not_json", "text"} THEN loop_bot
       ELSE IF p.kind = "missing" THEN [loop_bot EXCEPT !.playback_volume = 100]
       ELSE [loop_bot EXCEPT !.playback_volume = ClampVolume(vol)]
  /\ RouteFrame

PayloadNext ==
  \/ \E p \in LoopPayloads : JoinRoute(p)
  \/ \E p \in SecondsPayloads : DelayOnRoute(p)
  \/ \E p \in VolumePayloads : SetVolumeRoute(p, 100)
  \/ \E vol \in VolumeRequests : SetVolumeRoute(Payload("number", None), vol)
  \/ Talk
  \/ Mute
  \/ DisableAudioDelay
  \/ DrainDone

PayloadSpec == Init /\ [][PayloadNext]_vars

\* the step serves a request whose payload is malformed
MalformedRequest ==
  \/ \E p \in LoopPayloads : Malformed("join", p) /\ JoinRoute(p)
  \/ \E p \in SecondsPayloads : Malformed("delay_on", p) /\ DelayOnRoute(p)
  \/ \E p \in VolumePayloads : Malformed("set_volume", p) /\ SetVolumeRoute(p, 100)

\* C26: a request with a malformed payload changes no field of the bot:
\* loop, streaming, delay flag and volume are after it what they were.
C26_MalformedRejected == [][MalformedRequest => loop_bot' = loop_bot]_vars

\* bot b is where the bookkeeping says it is: joined to the loop it is
\* assigned to (to none when idle), and streaming exactly when that loop is
\* TALK
Agrees(b) ==
  LET l == bot_pool[b].assigned
  IN /\ bot_servers[b].loop = l
     /\ bot_servers[b].streaming = (l # None /\ loop_states[l].state = TALK)

\* C27: whenever no delayed command is pending (every posted command has
\* been served), every bot agrees with the controller's bookkeeping.
C27_BotsAgree == timers = << >> => \A b \in BotNames : Agrees(b)

\* ---------------------------------------------------------------------
\* C23: pending delayed commands

\* the sleeping threads wake up when their time has come and time passes
\* (time.sleep and threading.Timer return; nothing in the code stops them)
SystemFairSpec ==
  /\ SystemSpec
  /\ WF_vars(\E i \in 1..MaxTimers : TimerFires(i))
  /\ WF_vars(SystemTick)

\* the i-th pending command fires: it was due, it leaves the pending ones,
\* and its effect is applied to the bot as the bot is at that moment
Fired(i) ==
  /\ timers[i].due <= now
  /\ timers' = Without(timers, i)
  /\ LET b == timers[i].bot
         k == timers[i].kind
     IN /\ bot_servers'[b].streaming = (k = "talk")
        /\ bot_servers'[b].loop = IF k = "leave" THEN None ELSE bot_servers[b].loop
        /\ bot_servers'[b].audio_delay_enabled = bot_servers[b].audio_delay_enabled
        /\ \A o \in BotNames \ {b} : bot_servers'[o] = bot_servers[o]

\* every pending command is still pending after the step, in its place
Kept ==
  /\ Len(timers') >= Len(timers)
  /\ SubSeq(timers', 1, Len(timers)) = timers

\* C23: a pending delayed command (the delayed leave, the delayed mute, the
\* delayed talk that follows a join) is never cancelled by a later state
\* change: every step keeps the pending commands except the one that
\* fires, and the commands due at a moment have all fired some time after
\* that moment, their effect applied to the state the bot is in then
C23_NeverCancelled ==
  /\ [][Kept \/ \E i \in 1..Len(timers) : Fired(i)]_vars
  /\ \A due \in 0..MaxSystemTime :
       (\E i \in 1..Len(timers) : timers[i].due = due)
         ~> (now >= due /\ \A i \in 1..Len(timers) : timers[i].due # due)

\* a delayed mute has fired after its loop was made TALK again: the loop is
\* TALK, nothing is pending, and the loop's bot has been silenced
C23_Witness ==
  /\ timers = << >>
  /\ \E l \in LoopNames :
       /\ loop_states[l].state = TALK
       /\ loop_states[l].bot # None
       /\ bot_servers[loop_states[l].bot].loop = l
       /\ ~bot_servers[loop_states[l].bot].streaming

\* ---------------------------------------------------------------------
\* C21: the delayed leave

\* the buttons pressed: those of as many loops as there are bots, so that
\* the pool can be exhausted
LeaveLoops == {LOOPS[i].name : i \in 1..Len(BOTS)}

LeaveNext ==
  \/ \E l \in LeaveLoops : SystemOnLoopClicked(l)
  \/ \E l \in LeaveLoops : SystemOnLoopOffClicked(l)
  \/ SystemToggleDelay
  \/ \E i \in 1..MaxTimers : TimerFires(i)
  \/ SystemTick

LeaveSpec == Init /\ [][LeaveNext]_vars

\* the delayed leave of a streaming bot is pending and its time has not come
LeavePending(b) ==
  /\ bot_servers[b].streaming
  /\ bot_servers[b].audio_delay_enabled
  /\ \E i \in 1..Len(timers) :
       timers[i] = Timer(b, "leave", timers[i].due) /\ now < timers[i].due

\* C21: with delay mode on, when a TALK loop whose bot is streaming is
\* switched OFF, the bot's mute and leave take effect only after the delay:
\* until then the bot keeps streaming and stays in its loop, so that the
\* worker (which passes a frame to add_sound only while the bot is
\* streaming) plays the frames that are still in the delay pipeline
C21_LeaveOnlyAfterDelay ==
  [][\A b \in BotNames :
       LeavePending(b) => /\ bot_servers'[b].streaming
                          /\ bot_servers'[b].loop = bot_servers[b].loop]_vars

====
